---------------------------- MODULE Spec2Model ----------------------------
(***************************************************************************)
(* ur2ud.py: romanized Indic text (ISO15919 / IAST) to Devanagari.         *)
(*                                                                         *)
(* Characters and output codepoints are Unicode scalar values (integers),  *)
(* a string is a sequence of them, a table key is such a sequence, and a   *)
(* dict is a function from keys to codepoint sequences.  The class-level   *)
(* dicts of Transliterator are one shared mutable object each: they live   *)
(* in the variable klass and every instance reads them through it.         *)
(***************************************************************************)
EXTENDS Integers, Sequences, FiniteSets, TLC

\* ------------------------------------------------------------------ bounds
\* Longest input enumerated exhaustively over Alphabet.
MaxLen == 3
\* Most Transliterator(...) calls in one program run.
MaxObjs == 2
\* Most transliterate(...) calls in one program run.
MaxCalls == 2

\* ------------------------------------------------------- class constants
VIRAMA == 2381
AVAGRAHA == 2365
ANUSVARA == 2306

\* The three values self.state[0] takes during a scan, and the sentinel for
\* the None that __init__ stores in self.state.
Start == 0
PendingConsonant == 1
Other == -1
NoState == 2

SPACE == 32
APOSTROPHE == 39

\* ACCENTED_INITIAL_VOWELS (lines 87-98): never read by the engine.
ACCENTED_INITIAL_VOWELS ==
       <<224>>                    :> <<2309>>         \* u'\u00E0' (line 88)
    @@ <<225>>                    :> <<2309>>         \* u'\u00E1' (line 89)
    @@ <<236>>                    :> <<2311>>         \* u'\u00EC' (line 90)
    @@ <<237>>                    :> <<2311>>         \* u'\u00ED' (line 91)
    @@ <<249>>                    :> <<2313>>         \* u'\u00F9' (line 92)
    @@ <<250>>                    :> <<2313>>         \* u'\u00FA' (line 93)
    @@ <<232>>                    :> <<2319>>         \* u'\u00E8' (line 94)
    @@ <<233>>                    :> <<2319>>         \* u'\u00E9' (line 95)
    @@ <<242>>                    :> <<2323>>         \* u'\u00F2' (line 96)
    @@ <<243>>                    :> <<2323>>         \* u'\u00F3' (line 97)

\* ACCENTED_COMBINING_VOWELS (lines 100-109): never read by the engine.
ACCENTED_COMBINING_VOWELS ==
       <<236>>                    :> <<2367>>         \* u'\u00EC' (line 101)
    @@ <<237>>                    :> <<2367>>         \* u'\u00ED' (line 102)
    @@ <<249>>                    :> <<2369>>         \* u'\u00F9' (line 103)
    @@ <<250>>                    :> <<2369>>         \* u'\u00FA' (line 104)
    @@ <<232>>                    :> <<2375>>         \* u'\u00E8' (line 105)
    @@ <<233>>                    :> <<2375>>         \* u'\u00E9' (line 106)
    @@ <<242>>                    :> <<2379>>         \* u'\u00F2' (line 107)
    @@ <<243>>                    :> <<2379>>         \* u'\u00F3' (line 108)

\* COMBINING_VOWELS as written in the class body (lines 111-152).
COMBINING_VOWELS ==
       <<97>>                     :> <<>>             \* u'a' (line 112)
    @@ <<105>>                    :> <<2367>>         \* u'i' (line 113)
    @@ <<117>>                    :> <<2369>>         \* u'u' (line 114)
    @@ <<101>>                    :> <<2375>>         \* u'e' (line 115)
    @@ <<111>>                    :> <<2379>>         \* u'o' (line 116)
    @@ <<97, 105>>                :> <<2376>>         \* u'ai' (line 117)
    @@ <<97, 117>>                :> <<2380>>         \* u'au' (line 118)
    @@ <<234>>                    :> <<2373>>         \* u'\u00EA' (line 119)
    @@ <<244>>                    :> <<2377>>         \* u'\u00F4' (line 120)
    @@ <<227>>                    :> <<2305>>         \* u'\u00E3' (line 121)
    @@ <<245>>                    :> <<2379, 2306>>   \* u'\u00F5' (line 122)
    @@ <<257>>                    :> <<2366>>         \* u'\u0101' (line 123)
    @@ <<7869>>                   :> <<2375, 2306>>   \* u'\u1EBD' (line 124)
    @@ <<299>>                    :> <<2368>>         \* u'\u012B' (line 125)
    @@ <<363>>                    :> <<2370>>         \* u'\u016B' (line 126)
    @@ <<297>>                    :> <<2367, 2306>>   \* u'\u0129' (line 127)
    @@ <<361>>                    :> <<2369, 2305>>   \* u'\u0169' (line 128)
    @@ <<97, 297>>                :> <<2376, 2306>>   \* u'a\u0129' (line 129)
    @@ <<97, 361>>                :> <<2380, 2306>>   \* u'a\u0169' (line 130)
    @@ <<257, 771>>               :> <<2366, 2305>>   \* u'\u0101\u0303' (line 131)
    @@ <<299, 771>>               :> <<2368, 2306>>   \* u'\u012B\u0303' (line 132)
    @@ <<363, 771>>               :> <<2370, 2305>>   \* u'\u016B\u0303' (line 133)
    @@ <<257, 768>>               :> <<2366>>         \* u'\u0101\u0300' (line 134)
    @@ <<257, 769>>               :> <<2366>>         \* u'\u0101\u0301' (line 135)
    @@ <<299, 768>>               :> <<2368>>         \* u'\u012B\u0300' (line 136)
    @@ <<299, 769>>               :> <<2368>>         \* u'\u012B\u0301' (line 137)
    @@ <<363, 768>>               :> <<2370>>         \* u'\u016B\u0300' (line 138)
    @@ <<363, 769>>               :> <<2370>>         \* u'\u016B\u0301' (line 139)
    @@ <<108, 805>>               :> <<2402>>         \* u'l\u0325' (line 140)
    @@ <<114, 805>>               :> <<2371>>         \* u'r\u0325' (line 141)
    @@ <<108, 805, 772>>          :> <<2403>>         \* u'l\u0325\u0304' (line 142)
    @@ <<114, 805, 772>>          :> <<2372>>         \* u'r\u0325\u0304' (line 143)
    @@ <<108, 805, 768>>          :> <<2402>>         \* u'l\u0325\u0300' (line 144)
    @@ <<108, 805, 769>>          :> <<2402>>         \* u'l\u0325\u0301' (line 145)
    @@ <<114, 805, 768>>          :> <<2371>>         \* u'r\u0325\u0300' (line 146)
    @@ <<114, 805, 769>>          :> <<2371>>         \* u'r\u0325\u0301' (line 147)
    @@ <<108, 805, 772, 768>>     :> <<2403>>         \* u'l\u0325\u0304\u0300' (line 148)
    @@ <<108, 805, 772, 769>>     :> <<2403>>         \* u'l\u0325\u0304\u0301' (line 149)
    @@ <<114, 805, 772, 768>>     :> <<2372>>         \* u'r\u0325\u0304\u0300' (line 150)
    @@ <<114, 805, 772, 769>>     :> <<2372>>         \* u'r\u0325\u0304\u0301' (line 151)

\* INITIAL_VOWELS as written in the class body (lines 154-195).
INITIAL_VOWELS ==
       <<97>>                     :> <<2309>>         \* u'a' (line 155)
    @@ <<105>>                    :> <<2311>>         \* u'i' (line 156)
    @@ <<117>>                    :> <<2313>>         \* u'u' (line 157)
    @@ <<101>>                    :> <<2319>>         \* u'e' (line 158)
    @@ <<111>>                    :> <<2323>>         \* u'o' (line 159)
    @@ <<97, 105>>                :> <<2320>>         \* u'ai' (line 160)
    @@ <<97, 117>>                :> <<2324>>         \* u'au' (line 161)
    @@ <<234>>                    :> <<2317>>         \* u'\u00EA' (line 162)
    @@ <<244>>                    :> <<2321>>         \* u'\u00F4' (line 163)
    @@ <<227>>                    :> <<2309, 2305>>   \* u'\u00E3' (line 164)
    @@ <<245>>                    :> <<2323, 2306>>   \* u'\u00F5' (line 165)
    @@ <<257>>                    :> <<2310>>         \* u'\u0101' (line 166)
    @@ <<7869>>                   :> <<2319, 2305>>   \* u'\u1EBD' (line 167)
    @@ <<299>>                    :> <<2312>>         \* u'\u012B' (line 168)
    @@ <<363>>                    :> <<2314>>         \* u'\u016B' (line 169)
    @@ <<297>>                    :> <<2311, 2305>>   \* u'\u0129' (line 170)
    @@ <<361>>                    :> <<2313, 2305>>   \* u'\u0169' (line 171)
    @@ <<97, 297>>                :> <<2320, 2306>>   \* u'a\u0129' (line 172)
    @@ <<97, 361>>                :> <<2324, 2306>>   \* u'a\u0169' (line 173)
    @@ <<257, 771>>               :> <<2310, 2305>>   \* u'\u0101\u0303' (line 174)
    @@ <<299, 771>>               :> <<2312, 2306>>   \* u'\u012B\u0303' (line 175)
    @@ <<363, 771>>               :> <<2314, 2305>>   \* u'\u016B\u0303' (line 176)
    @@ <<257, 768>>               :> <<2310>>         \* u'\u0101\u0300' (line 177)
    @@ <<257, 769>>               :> <<2310>>         \* u'\u0101\u0301' (line 178)
    @@ <<299, 768>>               :> <<2312>>         \* u'\u012B\u0300' (line 179)
    @@ <<299, 769>>               :> <<2312>>         \* u'\u012B\u0301' (line 180)
    @@ <<363, 768>>               :> <<2314>>         \* u'\u016B\u0300' (line 181)
    @@ <<363, 769>>               :> <<2314>>         \* u'\u016B\u0301' (line 182)
    @@ <<108, 805>>               :> <<2316>>         \* u'l\u0325' (line 183)
    @@ <<114, 805>>               :> <<2315>>         \* u'r\u0325' (line 184)
    @@ <<108, 805, 772>>          :> <<2401>>         \* u'l\u0325\u0304' (line 185)
    @@ <<114, 805, 772>>          :> <<2400>>         \* u'r\u0325\u0304' (line 186)
    @@ <<108, 805, 768>>          :> <<2316>>         \* u'l\u0325\u0300' (line 187)
    @@ <<108, 805, 769>>          :> <<2316>>         \* u'l\u0325\u0301' (line 188)
    @@ <<114, 805, 768>>          :> <<2315>>         \* u'r\u0325\u0300' (line 189)
    @@ <<114, 805, 769>>          :> <<2315>>         \* u'r\u0325\u0301' (line 190)
    @@ <<108, 805, 772, 768>>     :> <<2401>>         \* u'l\u0325\u0304\u0300' (line 191)
    @@ <<108, 805, 772, 769>>     :> <<2401>>         \* u'l\u0325\u0304\u0301' (line 192)
    @@ <<114, 805, 772, 768>>     :> <<2400>>         \* u'r\u0325\u0304\u0300' (line 193)
    @@ <<114, 805, 772, 769>>     :> <<2400>>         \* u'r\u0325\u0304\u0301' (line 194)

\* DIACRITICS as written in the class body (lines 197-201).
DIACRITICS ==
       <<7745>>                   :> <<2306>>         \* u'\u1E41' (line 198)
    @@ <<7717>>                   :> <<2307>>         \* u'\u1E25' (line 199)
    @@ <<109, 784>>               :> <<2305>>         \* u'm\u0310' (line 200)

\* CONSONANTS as written in the class body (lines 203-249).
CONSONANTS ==
       <<107>>                    :> <<2325>>         \* u'k' (line 204)
    @@ <<113>>                    :> <<2392>>         \* u'q' (line 205)
    @@ <<107, 104>>               :> <<2326>>         \* u'kh' (line 206)
    @@ <<103>>                    :> <<2327>>         \* u'g' (line 207)
    @@ <<103, 104>>               :> <<2328>>         \* u'gh' (line 208)
    @@ <<99>>                     :> <<2330>>         \* u'c' (line 209)
    @@ <<99, 104>>                :> <<2331>>         \* u'ch' (line 210)
    @@ <<106>>                    :> <<2332>>         \* u'j' (line 211)
    @@ <<122>>                    :> <<2395>>         \* u'z' (line 212)
    @@ <<106, 104>>               :> <<2333>>         \* u'jh' (line 213)
    @@ <<116>>                    :> <<2340>>         \* u't' (line 214)
    @@ <<116, 104>>               :> <<2341>>         \* u'th' (line 215)
    @@ <<100>>                    :> <<2342>>         \* u'd' (line 216)
    @@ <<100, 104>>               :> <<2343>>         \* u'dh' (line 217)
    @@ <<110>>                    :> <<2344>>         \* u'n' (line 218)
    @@ <<112>>                    :> <<2346>>         \* u'p' (line 219)
    @@ <<112, 104>>               :> <<2347>>         \* u'ph' (line 220)
    @@ <<102>>                    :> <<2398>>         \* u'f' (line 221)
    @@ <<98>>                     :> <<2348>>         \* u'b' (line 222)
    @@ <<98, 104>>                :> <<2349>>         \* u'bh' (line 223)
    @@ <<109>>                    :> <<2350>>         \* u'm' (line 224)
    @@ <<121>>                    :> <<2351>>         \* u'y' (line 225)
    @@ <<114>>                    :> <<2352>>         \* u'r' (line 226)
    @@ <<108>>                    :> <<2354>>         \* u'l' (line 227)
    @@ <<118>>                    :> <<2357>>         \* u'v' (line 228)
    @@ <<115>>                    :> <<2360>>         \* u's' (line 229)
    @@ <<104>>                    :> <<2361>>         \* u'h' (line 230)
    @@ <<241>>                    :> <<2334>>         \* u'\u00F1' (line 231)
    @@ <<289>>                    :> <<2394>>         \* u'\u0121' (line 232)
    @@ <<7749>>                   :> <<2329>>         \* u'\u1E45' (line 233)
    @@ <<7789>>                   :> <<2335>>         \* u'\u1E6D' (line 234)
    @@ <<7789, 104>>              :> <<2336>>         \* u'\u1E6Dh' (line 235)
    @@ <<7693>>                   :> <<2337>>         \* u'\u1E0D' (line 236)
    @@ <<7693, 104>>              :> <<2338>>         \* u'\u1E0Dh' (line 237)
    @@ <<7771>>                   :> <<2396>>         \* u'\u1E5B' (line 238)
    @@ <<7771, 104>>              :> <<2397>>         \* u'\u1E5Bh' (line 239)
    @@ <<7751>>                   :> <<2339>>         \* u'\u1E47' (line 240)
    @@ <<7753>>                   :> <<2345>>         \* u'\u1E49' (line 241)
    @@ <<7735>>                   :> <<2355>>         \* u'\u1E37' (line 242)
    @@ <<7739>>                   :> <<2356>>         \* u'\u1E3B' (line 243)
    @@ <<347>>                    :> <<2358>>         \* u'\u015B' (line 244)
    @@ <<7779>>                   :> <<2359>>         \* u'\u1E63' (line 245)
    @@ <<7823>>                   :> <<2399>>         \* u'\u1E8F' (line 246)
    @@ <<114, 774>>               :> <<2353>>         \* u'r\u0306' (line 247)
    @@ <<107, 8205, 817>>         :> <<2393>>         \* u'k\u200D\u0331' (line 248)

\* NUMERALS (lines 252-263): never read by the engine.
NUMERALS ==
       <<48>>                     :> <<2406>>         \* u'0' (line 253)
    @@ <<49>>                     :> <<2407>>         \* u'1' (line 254)
    @@ <<50>>                     :> <<2408>>         \* u'2' (line 255)
    @@ <<51>>                     :> <<2409>>         \* u'3' (line 256)
    @@ <<52>>                     :> <<2410>>         \* u'4' (line 257)
    @@ <<53>>                     :> <<2411>>         \* u'5' (line 258)
    @@ <<54>>                     :> <<2412>>         \* u'6' (line 259)
    @@ <<55>>                     :> <<2413>>         \* u'7' (line 260)
    @@ <<56>>                     :> <<2414>>         \* u'8' (line 261)
    @@ <<57>>                     :> <<2415>>         \* u'9' (line 262)

\* The dict passed to INITIAL_VOWELS.update when iast is set (lines 280-300).
IAST_INITIAL_VOWELS ==
       <<7771>>                   :> <<2315>>         \* u'\u1e5b' (line 281)
    @@ <<7771, 772>>              :> <<2400>>         \* u'\u1e5b\u0304' (line 282)
    @@ <<7773>>                   :> <<2400>>         \* u'\u1e5d' (line 283)
    @@ <<7771, 768>>              :> <<2315>>         \* u'\u1e5b\u0300' (line 284)
    @@ <<7771, 769>>              :> <<2315>>         \* u'\u1e5b\u0301' (line 285)
    @@ <<7771, 772, 768>>         :> <<2400>>         \* u'\u1e5b\u0304\u0300' (line 286)
    @@ <<7773, 768>>              :> <<2400>>         \* u'\u1e5d\u0300' (line 287)
    @@ <<7771, 772, 769>>         :> <<2400>>         \* u'\u1e5b\u0304\u0301' (line 288)
    @@ <<7773, 769>>              :> <<2400>>         \* u'\u1e5d\u0301' (line 289)
    @@ <<7735>>                   :> <<2316>>         \* u'\u1e37' (line 291)
    @@ <<7735, 772>>              :> <<2401>>         \* u'\u1e37\u0304' (line 292)
    @@ <<7737>>                   :> <<2401>>         \* u'\u1e39' (line 293)
    @@ <<7735, 768>>              :> <<2316>>         \* u'\u1e37\u0300' (line 294)
    @@ <<7735, 769>>              :> <<2316>>         \* u'\u1e37\u0301' (line 295)
    @@ <<7735, 772, 768>>         :> <<2401>>         \* u'\u1e37\u0304\u0300' (line 296)
    @@ <<7737, 768>>              :> <<2401>>         \* u'\u1e39\u0300' (line 297)
    @@ <<7735, 772, 769>>         :> <<2401>>         \* u'\u1e37\u0304\u0301' (line 298)
    @@ <<7737, 769>>              :> <<2401>>         \* u'\u1e39\u0301' (line 299)

\* The dict passed to COMBINING_VOWELS.update when iast is set (lines 302-322).
IAST_COMBINING_VOWELS ==
       <<7771>>                   :> <<2371>>         \* u'\u1e5b' (line 303)
    @@ <<7771, 772>>              :> <<2372>>         \* u'\u1e5b\u0304' (line 304)
    @@ <<7773>>                   :> <<2372>>         \* u'\u1e5d' (line 305)
    @@ <<7771, 768>>              :> <<2371>>         \* u'\u1e5b\u0300' (line 306)
    @@ <<7771, 769>>              :> <<2371>>         \* u'\u1e5b\u0301' (line 307)
    @@ <<7771, 772, 768>>         :> <<2372>>         \* u'\u1e5b\u0304\u0300' (line 308)
    @@ <<7773, 768>>              :> <<2372>>         \* u'\u1e5d\u0300' (line 309)
    @@ <<7771, 772, 769>>         :> <<2372>>         \* u'\u1e5b\u0304\u0301' (line 310)
    @@ <<7773, 769>>              :> <<2372>>         \* u'\u1e5d\u0301' (line 311)
    @@ <<7735>>                   :> <<2402>>         \* u'\u1e37' (line 313)
    @@ <<7735, 772>>              :> <<2403>>         \* u'\u1e37\u0304' (line 314)
    @@ <<7737>>                   :> <<2403>>         \* u'\u1e39' (line 315)
    @@ <<7735, 768>>              :> <<2402>>         \* u'\u1e37\u0300' (line 316)
    @@ <<7735, 769>>              :> <<2402>>         \* u'\u1e37\u0301' (line 317)
    @@ <<7735, 772, 768>>         :> <<2403>>         \* u'\u1e37\u0304\u0300' (line 318)
    @@ <<7737, 768>>              :> <<2403>>         \* u'\u1e39\u0300' (line 319)
    @@ <<7735, 772, 769>>         :> <<2403>>         \* u'\u1e37\u0304\u0301' (line 320)
    @@ <<7737, 769>>              :> <<2403>>         \* u'\u1e39\u0301' (line 321)

\* ------------------------------------------------------- Python helpers
\* s[a:b] for 0 <= a <= b: slicing clips at the end and never raises.
Slice(s, a, b) ==
    LET hi == IF b < Len(s) THEN b ELSE Len(s)
    IN IF a >= hi THEN <<>> ELSE SubSeq(s, a + 1, hi)

\* d[key] = val
DictSet(d, key, val) == (key :> val) @@ d

\* d.update(other): other's entries win.
DictUpdate(d, other) == other @@ d

\* del d[key], for a key that is present.
DictDel(d, key) == [x \in DOMAIN d \ {key} |-> d[x]]

\* unicode.lower() on one character, for the Latin ranges the tables use:
\* ASCII, Latin-1, Latin Extended-A up to U+012F and Latin Extended
\* Additional up to U+1E95 (upper and lower case alternate there).
LowerChar(c) ==
    IF c \in 65..90 THEN c + 32
    ELSE IF c \in 192..222 /\ c # 215 THEN c + 32
    ELSE IF c \in 256..303 /\ c % 2 = 0 THEN c + 1
    ELSE IF c \in 7680..7829 /\ c % 2 = 0 THEN c + 1
    ELSE c

\* text.lower()
Lower(s) == [n \in 1..Len(s) |-> LowerChar(s[n])]

\* ''.join(fragments)
RECURSIVE Join(_)
Join(frags) ==
    IF frags = <<>> THEN <<>> ELSE Head(frags) \o Join(Tail(frags))

\* ---------------------------------------------------------------- state
VARIABLES
    klass,      \* the class attributes CONSONANTS, INITIAL_VOWELS,
                \* COMBINING_VOWELS and DIACRITICS, shared by all instances
    objs,       \* the instances, in order of construction: transliterables,
                \* state, devanagari, and the iast argument each was built with
    raised,     \* "none", or the exception that ended the program
    fr,         \* per thread: the frame of its transliterate call
    ncalls      \* transliterate calls started so far

vars == <<klass, objs, raised, fr, ncalls>>

\* The main thread, and a second thread for concurrent calls.
Main == "main"
Threads == {"main", "worker"}

\* The class attributes when the class body has run (lines 84-267).
ClassBody ==
    [CONSONANTS       |-> CONSONANTS,
     INITIAL_VOWELS   |-> INITIAL_VOWELS,
     COMBINING_VOWELS |-> COMBINING_VOWELS,
     DIACRITICS       |-> DIACRITICS]

\* A frame outside any call.
IdleFrame ==
    [pc |-> "idle", self |-> 0, arg |-> <<>>, text |-> <<>>, stop |-> 0,
     i |-> 0, result |-> <<>>, log |-> <<>>, entry |-> NoState]

\* --------------------------------------------------------- __init__
\* Lines 271-322: the iast branch.  The three del statements raise KeyError
\* when the key is gone; what ran before the raise stays done.
reconfigure(k) ==
    LET k0 == [k EXCEPT !.DIACRITICS = DictSet(@, <<7747>>, <<ANUSVARA>>)]
        k1 == [k0 EXCEPT !.CONSONANTS = DictDel(@, <<7771>>)]
        k2 == [k1 EXCEPT !.CONSONANTS = DictDel(@, <<7771, 104>>)]
        k3 == [k2 EXCEPT !.CONSONANTS = DictDel(@, <<7735>>)]
    IN IF <<7771>> \notin DOMAIN k0.CONSONANTS
           THEN [klass |-> k0, raised |-> "KeyError"]
       ELSE IF <<7771, 104>> \notin DOMAIN k1.CONSONANTS
           THEN [klass |-> k1, raised |-> "KeyError"]
       ELSE IF <<7735>> \notin DOMAIN k2.CONSONANTS
           THEN [klass |-> k2, raised |-> "KeyError"]
       ELSE [klass |->
                [k3 EXCEPT
                    !.INITIAL_VOWELS = DictUpdate(@, IAST_INITIAL_VOWELS),
                    !.COMBINING_VOWELS = DictUpdate(@, IAST_COMBINING_VOWELS)],
             raised |-> "none"]

\* Lines 324-325: self.transliterables, a snapshot of the keys.
transliterables(k) ==
    DOMAIN k.CONSONANTS \cup DOMAIN k.COMBINING_VOWELS \cup {<<>>}

\* Lines 326-327: diacritics and the apostrophe join INITIAL_VOWELS.
merge_initial(k) ==
    [k EXCEPT !.INITIAL_VOWELS =
        DictSet(DictUpdate(@, k.DIACRITICS), <<APOSTROPHE>>, <<AVAGRAHA>>)]

\* __init__(self, iast) on class attributes k: the class attributes it
\* leaves, the exception it raised if any, and the new instance.
init(k, iast) ==
    LET r == IF iast THEN reconfigure(k) ELSE [klass |-> k, raised |-> "none"]
    IN IF r.raised # "none" THEN [klass |-> r.klass, raised |-> r.raised,
                                 obj |-> <<>>]
       ELSE [klass |-> merge_initial(r.klass), raised |-> "none",
             obj |-> << [iast |-> iast,
                         transliterables |-> transliterables(r.klass),
                         state |-> NoState,
                         devanagari |-> <<>>] >>]

\* Transliterator(iast), on the main thread between calls; the frame of a
\* call that has returned is gone by then.
Transliterator(iast) ==
    /\ raised = "none"
    /\ \A t \in Threads : fr[t].pc \in {"idle", "done"}
    /\ Len(objs) < MaxObjs
    /\ LET r == init(klass, iast)
       IN /\ klass' = r.klass
          /\ raised' = r.raised
          /\ objs' = objs \o r.obj
    /\ fr' = [t \in Threads |-> IdleFrame]
    /\ UNCHANGED ncalls

\* ----------------------------------------------------- process_token
\* consonant without the virama that closes a pending consonant.
consonant_unclosed(k, st, dev, token) ==
    [ok |-> TRUE, state |-> PendingConsonant,
     devanagari |-> Append(dev, k.CONSONANTS[token]),
     rule |-> "consonant"]

\* The consonant branch, lines 352-358.
consonant(k, st, dev, token) ==
    [ok |-> TRUE, state |-> PendingConsonant,
     devanagari |->
        Append(IF st = PendingConsonant THEN Append(dev, <<VIRAMA>>) ELSE dev,
               k.CONSONANTS[token]),
     rule |-> "consonant"]

\* pair_rule_state firing in every state.
pair_rule_state_any(st) == TRUE

\* Lines 337 and 341: the state in which the space and apostrophe pair rules
\* fire.
pair_rule_state(st) == st = PendingConsonant

\* initial_vowel leaving the state Start.
initial_vowel_resets(k, st, dev, token) ==
    [ok |-> TRUE, state |-> Start,
     devanagari |-> Append(dev, k.INITIAL_VOWELS[token]),
     rule |-> "initial_vowel"]

\* The independent vowel branch, lines 360-363.
initial_vowel(k, st, dev, token) ==
    [ok |-> TRUE, state |-> st,
     devanagari |-> Append(dev, k.INITIAL_VOWELS[token]),
     rule |-> "initial_vowel"]

\* combining_vowel leaving the consonant pending.
combining_vowel_keeps_pending(k, st, dev, token) ==
    [ok |-> TRUE, state |-> st,
     devanagari |-> Append(dev, k.COMBINING_VOWELS[token]),
     rule |-> "combining_vowel"]

\* The dependent vowel branch, lines 365-369.
combining_vowel(k, st, dev, token) ==
    [ok |-> TRUE, state |-> Start,
     devanagari |-> Append(dev, k.COMBINING_VOWELS[token]),
     rule |-> "combining_vowel"]

\* process_token(self, token) with self.state[0] = st and
\* self.devanagari = dev: its return value, the state and buffer it leaves,
\* and the branch that returned.
process_token(k, st, dev, token) ==
    IF token = <<SPACE, APOSTROPHE>> /\ pair_rule_state(st)
        THEN [ok |-> TRUE, state |-> Start, devanagari |-> dev,
              rule |-> "space_apostrophe"]
    ELSE IF token = <<APOSTROPHE, SPACE>> /\ pair_rule_state(st)
        THEN [ok |-> TRUE, state |-> Start,
              devanagari |-> Append(dev, <<SPACE>>),
              rule |-> "apostrophe_space"]
    ELSE IF token = <<APOSTROPHE, 7745>>
        THEN [ok |-> TRUE, state |-> Start,
              devanagari |-> Append(dev, <<ANUSVARA, AVAGRAHA>>),
              rule |-> "apostrophe_anusvara"]
    ELSE IF token \in DOMAIN k.CONSONANTS
        THEN consonant(k, st, dev, token)
    ELSE IF st < 1 /\ token \in DOMAIN k.INITIAL_VOWELS
        THEN initial_vowel(k, st, dev, token)
    ELSE IF st = PendingConsonant /\ token \in DOMAIN k.COMBINING_VOWELS
        THEN combining_vowel(k, st, dev, token)
    ELSE [ok |-> FALSE, state |-> st, devanagari |-> dev, rule |-> "none"]

\* ------------------------------------------------------ transliterate
\* entry_state without the reset of line 378.
entry_state_kept(old) == old

\* Line 378: the state a call starts from, whatever self.state held.
entry_state(old) == Start

\* Line 379: the buffer a call starts from, whatever self.devanagari held.
entry_buffer(old) == <<>>

\* loop_cond with the bound included.
loop_cond_inclusive(i, stop) == i <= stop

\* Line 383: the loop condition.
loop_cond(i, stop) == i < stop

\* passthrough without the virama that closes a pending consonant.
passthrough_unclosed(st, dev, token) ==
    [state |-> Other, devanagari |-> Append(dev, token)]

\* first_token of one character only.
first_token_single(text, i) == Slice(text, i, i + 1)

\* Line 385: the token tried first at cursor i.
first_token(text, i) == Slice(text, i, i + 2)

\* Line 401: the state after an apostrophe is dropped.
dropped_apostrophe_state(st) == Start

\* Lines 408-413: the character matched nothing and is passed through.
passthrough(st, dev, token) ==
    [state |-> Other,
     devanagari |->
        Append(IF st = PendingConsonant THEN Append(dev, <<VIRAMA>>) ELSE dev,
               token)]

\* swallows_space whatever the state.
swallows_space_any_state(tr, st, nxt) ==
    nxt \in tr \/ nxt = <<APOSTROPHE>>

\* Lines 392-394: the space at the cursor is dropped.
swallows_space(tr, st, nxt) ==
    \/ st = PendingConsonant /\ nxt \in tr
    \/ st < 1 /\ nxt = <<APOSTROPHE>>

\* One iteration of the loop, lines 385-413, at cursor i with
\* self.state[0] = st and self.devanagari = dev; tr is self.transliterables.
\* n is the advance of the cursor; text[i] raises IndexError past the end.
loop_body(k, tr, text, i, st, dev) ==
    LET two == process_token(k, st, dev, first_token(text, i))
        nxt == Slice(text, i + 1, i + 2)
    IN IF two.ok
           THEN [n |-> 2, state |-> two.state, devanagari |-> two.devanagari,
                 rule |-> two.rule, raised |-> "none"]
       ELSE IF i >= Len(text)
           THEN [n |-> 0, state |-> st, devanagari |-> dev,
                 rule |-> "none", raised |-> "IndexError"]
       ELSE LET token == <<text[i + 1]>>
                one == process_token(k, st, dev, token)
                raw == passthrough(st, dev, token)
            IN IF token = <<SPACE>> /\ swallows_space(tr, st, nxt)
                   THEN [n |-> 1, state |-> st, devanagari |-> dev,
                         rule |-> "swallow_space", raised |-> "none"]
               ELSE IF token = <<APOSTROPHE>> /\ nxt \notin tr
                   THEN [n |-> 1, state |-> dropped_apostrophe_state(st),
                         devanagari |-> dev,
                         rule |-> "drop_apostrophe", raised |-> "none"]
               ELSE IF one.ok
                   THEN [n |-> 1, state |-> one.state,
                         devanagari |-> one.devanagari,
                         rule |-> one.rule, raised |-> "none"]
               ELSE [n |-> 1, state |-> raw.state,
                     devanagari |-> raw.devanagari,
                     rule |-> "passthrough", raised |-> "none"]

\* close_buffer without the trailing virama.
close_buffer_open(st, dev) == dev

\* Lines 415-416: the trailing virama.
close_buffer(st, dev) ==
    IF st = PendingConsonant THEN Append(dev, <<VIRAMA>>) ELSE dev

\* transliterate(text) run alone from entry to return on class attributes k
\* by an instance whose transliterables are tr: the string returned.
RECURSIVE scan(_, _, _, _, _, _)
scan(k, tr, text, i, st, dev) ==
    IF ~loop_cond(i, Len(text)) THEN Join(close_buffer(st, dev))
    ELSE LET b == loop_body(k, tr, text, i, st, dev)
         IN IF b.raised # "none" THEN <<-1>>
            ELSE scan(k, tr, text, i + b.n, b.state, b.devanagari)

transliterate(k, tr, arg) == scan(k, tr, Lower(arg), 0, Start, <<>>)

\* A thread calls o.transliterate(arg): the frame is set up, nothing has run.
Call(t, o, arg) ==
    /\ raised = "none"
    /\ fr[t].pc \in {"idle", "done"}
    /\ ncalls < MaxCalls
    /\ fr' = [fr EXCEPT ![t] =
                [IdleFrame EXCEPT !.pc = "enter", !.self = o, !.arg = arg]]
    /\ ncalls' = ncalls + 1
    /\ UNCHANGED <<klass, objs, raised>>

\* Lines 376-381.  entry records the state the call found.
Enter(t) ==
    /\ raised = "none"
    /\ fr[t].pc = "enter"
    /\ LET o == fr[t].self
           text == Lower(fr[t].arg)
       IN /\ objs' = [objs EXCEPT ![o].state = entry_state(@),
                                  ![o].devanagari = entry_buffer(@)]
          /\ fr' = [fr EXCEPT ![t].pc = "loop", ![t].text = text,
                              ![t].stop = Len(text), ![t].i = 0,
                              ![t].entry = objs[o].state]
    /\ UNCHANGED <<klass, raised, ncalls>>

\* advance by one character whatever the rule consumed.
advance_one(i, n) == i + 1

\* Lines 387, 395, 402, 406 and 413: the cursor after an iteration whose
\* rule advances it by n.
advance(i, n) == i + n

\* One iteration of the loop at line 383.
Loop(t) ==
    /\ raised = "none"
    /\ fr[t].pc = "loop"
    /\ loop_cond(fr[t].i, fr[t].stop)
    /\ LET o == fr[t].self
           b == loop_body(klass, objs[o].transliterables, fr[t].text,
                          fr[t].i, objs[o].state, objs[o].devanagari)
       IN /\ raised' = b.raised
          /\ objs' = [objs EXCEPT ![o].state = b.state,
                                  ![o].devanagari = b.devanagari]
          /\ fr' = [fr EXCEPT
                      ![t].i = advance(@, b.n),
                      ![t].log = Append(@,
                          [at |-> fr[t].i, n |-> b.n, rule |-> b.rule,
                           from |-> objs[o].state, to |-> b.state,
                           out |-> Len(b.devanagari)])]
    /\ UNCHANGED <<klass, ncalls>>

\* The loop has ended: lines 415-418.
Return(t) ==
    /\ raised = "none"
    /\ fr[t].pc = "loop"
    /\ ~loop_cond(fr[t].i, fr[t].stop)
    /\ LET o == fr[t].self
           dev == close_buffer(objs[o].state, objs[o].devanagari)
       IN /\ objs' = [objs EXCEPT ![o].devanagari = dev]
          /\ fr' = [fr EXCEPT ![t].pc = "done", ![t].result = Join(dev)]
    /\ UNCHANGED <<klass, raised, ncalls>>

\* ------------------------------------------------------------- inputs
\* k h a i r, combining ring below and macron, space, apostrophe,
\* m-dot-above, full stop, capital K, tab.
Alphabet == {107, 104, 97, 105, 114, 805, 772, 32, 39, 7745, 46, 75, 9}

\* Every string over Alphabet of at most MaxLen characters.
Strings == UNION {[1..m -> Alphabet] : m \in 0..MaxLen}

\* Every consonant key followed by every combining-vowel key of k.
PairTexts(k) ==
    {c \o v : c \in DOMAIN k.CONSONANTS, v \in DOMAIN k.COMBINING_VOWELS}

\* Every key of k alone.
KeyTexts(k) ==
    DOMAIN k.CONSONANTS \cup DOMAIN k.INITIAL_VOWELS
        \cup DOMAIN k.COMBINING_VOWELS

\* The vocalic r spellings of the two schemes, alone and after k.
VocalicTexts ==
    {<<114, 805>>, <<114, 805, 772>>, <<7771>>, <<7773>>,
     <<107, 114, 805>>, <<107, 114, 805, 772>>, <<107, 7771>>, <<107, 7773>>}

\* Every accented vowel key alone, and every accented dependent vowel key
\* after k.
AccentedTexts ==
    DOMAIN ACCENTED_INITIAL_VOWELS
        \cup {<<107>> \o v : v \in DOMAIN ACCENTED_COMBINING_VOWELS}

\* Apostrophe and m-dot-below at the start, after k and after a full stop,
\* and k before m with candrabindu.
AnusvaraTexts ==
    {<<39, 7747>>, <<107, 39, 7747>>, <<46, 39, 7747>>, <<107, 109, 784>>}

\* The inputs of the scan specification.
ScanTexts(k) ==
    Strings \cup PairTexts(k) \cup KeyTexts(k) \cup VocalicTexts
        \cup AccentedTexts \cup AnusvaraTexts

\* The inputs of the program and thread specifications: k, k., ka, r-dot-below,
\* m-dot-above, and the long vocalic r in both spellings.
ProgTexts ==
    {<<107>>, <<107, 46>>, <<107, 97>>, <<7771>>, <<7745>>,
     <<114, 805, 772>>, <<7773>>}

\* -------------------------------------------------------- specifications
\* A program: constructions and calls, one after the other.
Init ==
    /\ klass = ClassBody
    /\ objs = <<>>
    /\ raised = "none"
    /\ fr = [t \in Threads |-> IdleFrame]
    /\ ncalls = 0

Construct == \E iast \in BOOLEAN : Transliterator(iast)

CallAny == \E o \in 1..Len(objs), arg \in ProgTexts : Call(Main, o, arg)

Next ==
    \/ Construct
    \/ CallAny
    \/ Enter(Main)
    \/ Loop(Main)
    \/ Return(Main)

Spec == Init /\ [][Next]_vars

\* One instance built in a fresh program, then one call on any input.
InitScan ==
    \E iast \in BOOLEAN :
        LET r == init(ClassBody, iast)
        IN /\ klass = r.klass
           /\ objs = r.obj
           /\ raised = "none"
           /\ fr = [t \in Threads |-> IdleFrame]
           /\ ncalls = 0

CallOnce ==
    /\ ncalls = 0
    /\ fr[Main].pc = "idle"
    /\ \E arg \in ScanTexts(klass) : Call(Main, 1, arg)

NextScan ==
    \/ CallOnce
    \/ Enter(Main)
    \/ Loop(Main)
    \/ Return(Main)

SpecScan == InitScan /\ [][NextScan]_vars

\* k a r, combining ring below, space, apostrophe, full stop.
CursorAlphabet == {107, 97, 114, 805, 32, 39, 46}

\* The inputs of the cursor specification: every string over CursorAlphabet
\* of at most MaxLen characters and every key of k alone.
CursorTexts(k) ==
    UNION {[1..m -> CursorAlphabet] : m \in 0..MaxLen} \cup KeyTexts(k)

CallCursor ==
    /\ ncalls = 0
    /\ fr[Main].pc = "idle"
    /\ \E arg \in CursorTexts(klass) : Call(Main, 1, arg)

NextCursor ==
    \/ CallCursor
    \/ Enter(Main)
    \/ Loop(Main)
    \/ Return(Main)

\* One call on one fresh instance that keeps running: transliterate is
\* sequential code, so a call that can take its next step takes it.
SpecCursor ==
    /\ InitScan
    /\ [][NextCursor]_vars
    /\ WF_vars(Enter(Main))
    /\ WF_vars(Loop(Main))
    /\ WF_vars(Return(Main))

\* One instance built in a fresh program, then calls from two threads whose
\* steps interleave.
CallFrom(t) == \E arg \in ProgTexts : Call(t, 1, arg)

NextThreads ==
    \E t \in Threads :
        \/ CallFrom(t)
        \/ Enter(t)
        \/ Loop(t)
        \/ Return(t)

SpecThreads == InitScan /\ [][NextThreads]_vars

\* --------------------------------------------------------------- claims
\* The class attributes and the instance a fresh program gets from one
\* construction with the given flag.
Fresh(iast) == init(ClassBody, iast)

\* What a lone instance built with the given flag returns for arg.
Alone(iast, arg) ==
    transliterate(Fresh(iast).klass, Fresh(iast).obj[1].transliterables, arg)

\* The rules the log of a call names.
Rules(t) == {fr[t].log[n].rule : n \in 1..Len(fr[t].log)}

\* C1: transliterate is total.  No step of a call raises, the character at
\* the cursor exists whenever the loop runs another iteration, and a call
\* that has returned has returned a string.
C1_Total ==
    /\ raised = "none"
    /\ fr[Main].pc = "loop" /\ loop_cond(fr[Main].i, fr[Main].stop) =>
          fr[Main].i < Len(fr[Main].text)
    /\ fr[Main].pc = "done" => fr[Main].result \in Seq(Int)

\* A call has returned on an input that ends in a lone space or apostrophe
\* and holds a character no rule matched.
C1_Witness ==
    /\ fr[Main].pc = "done"
    /\ fr[Main].arg # <<>>
    /\ fr[Main].arg[Len(fr[Main].arg)] \in {SPACE, APOSTROPHE}
    /\ "passthrough" \in Rules(Main)

\* C2: what a call returns depends only on the text and on the flag its own
\* instance was built with: it is what a lone instance with that flag
\* returns, whichever other instances the program has built.
C2_OwnSchemeOnly ==
    fr[Main].pc = "done" =>
        fr[Main].result = Alone(objs[fr[Main].self].iast, fr[Main].arg)

\* C3: every construction succeeds and leaves the tables of the scheme it
\* was asked for active.
C3_ConstructionSucceeds ==
    /\ raised # "KeyError"
    /\ objs # <<>> => klass = Fresh(objs[Len(objs)].iast).klass

\* C4: a call whose steps interleave with another call on the same instance
\* returns what it returns when run alone.
C4_ThreadsIsolated ==
    \A t \in Threads :
        fr[t].pc = "done" =>
            fr[t].result =
                transliterate(klass, objs[fr[t].self].transliterables,
                              fr[t].arg)

\* C5: a call starts in Start with an empty buffer whatever the instance
\* held from the call before, and returns what a scan of its text from Start
\* and an empty buffer returns.
C5_NoCarryOver ==
    LET f == fr[Main]
    IN /\ f.pc = "loop" /\ f.log = <<>> =>
            /\ objs[f.self].state = Start
            /\ objs[f.self].devanagari = <<>>
       /\ f.pc = "done" =>
            f.result =
                transliterate(klass, objs[f.self].transliterables, f.arg)

\* A second call has returned output on an instance whose call before ended
\* in PendingConsonant or Other.
C5_Witness ==
    /\ fr[Main].pc = "done"
    /\ ncalls = 2
    /\ fr[Main].entry \in {PendingConsonant, Other}
    /\ fr[Main].result # <<>>

\* C6: a consonant key followed at once by a combining-vowel key other than
\* "a" gives the consonant's codepoints, then the vowel's, and no virama.
C6_ConsonantVowel ==
    fr[Main].pc = "done" =>
        \A n \in 1..Len(fr[Main].arg) :
            LET c == Slice(fr[Main].arg, 0, n)
                v == Slice(fr[Main].arg, n, Len(fr[Main].arg))
            IN (/\ c \in DOMAIN klass.CONSONANTS
                /\ v \in DOMAIN klass.COMBINING_VOWELS
                /\ v # <<97>>)
               => fr[Main].result =
                    klass.CONSONANTS[c] \o klass.COMBINING_VOWELS[v]

\* The ISO15919 spellings of anusvara and of the vocalic r and l vowels.
IsoSpellings ==
    {<<7745>>} \cup
    {key \in DOMAIN INITIAL_VOWELS \cup DOMAIN COMBINING_VOWELS :
        Len(key) >= 2 /\ key[1] \in {114, 108} /\ key[2] = 805}

\* The IAST spellings of the same phonemes.
IastSpellings ==
    {<<7747>>} \cup DOMAIN IAST_INITIAL_VOWELS
               \cup DOMAIN IAST_COMBINING_VOWELS

\* The keys that produce vowels and diacritics.
VowelKeys(k) ==
    DOMAIN k.INITIAL_VOWELS \cup DOMAIN k.COMBINING_VOWELS
        \cup DOMAIN k.DIACRITICS

\* C9: one spelling per phoneme.  For an IAST instance no ISO15919 spelling
\* of anusvara or of a vocalic r or l vowel is a key of the tables it reads;
\* for an ISO15919 instance no IAST spelling is.
C9_OneSpellingPerPhoneme ==
    \A o \in 1..Len(objs) :
        IF objs[o].iast
            THEN IsoSpellings \cap VowelKeys(klass) = {}
            ELSE IastSpellings \cap VowelKeys(klass) = {}

\* The IAST spelling of each ISO15919 spelling of vocalic r, short and long,
\* alone and after k.
IastSpellingOf ==
       <<114, 805>>           :> <<7771>>
    @@ <<114, 805, 772>>      :> <<7773>>
    @@ <<107, 114, 805>>      :> <<107, 7771>>
    @@ <<107, 114, 805, 772>> :> <<107, 7773>>

\* C10: an ISO15919 instance given the ISO15919 spelling of vocalic r returns
\* what an IAST instance returns for the IAST spelling.
C10_SchemeEquivalence ==
    (/\ fr[Main].pc = "done"
     /\ ~objs[1].iast
     /\ fr[Main].arg \in DOMAIN IastSpellingOf)
    => fr[Main].result = Alone(TRUE, IastSpellingOf[fr[Main].arg])

\* ----------------------------------------------- the log of a finished call
\* The frame of the main thread, its log and the buffer of its instance.
F == fr[Main]
Log == fr[Main].log
Dev == objs[fr[Main].self].devanagari

\* The index after the token of log entry j (0-based, as the cursor).
After(j) == Log[j].at + Log[j].n

\* Log entry j consumed the character at position p (1-based) of the text.
Covers(j, p) == Log[j].at < p /\ p <= After(j)

Whitespace == {SPACE, 9, 10, 11, 12, 13}

\* The fragment after the one entry j appended last is a virama.
ClosedByVirama(j) ==
    /\ Len(Dev) > Log[j].out
    /\ Dev[Log[j].out + 1] = <<VIRAMA>>

\* The token of entry j is followed by a whitespace character.
BeforeWhitespace(j) ==
    After(j) < Len(F.text) /\ F.text[After(j) + 1] \in Whitespace

\* The token of entry j is followed by a space that joins it to what comes
\* next: a space before an apostrophe, or a swallowed space before a token
\* matched as a combining vowel.
SpaceJoins(j) ==
    /\ After(j) < Len(F.text)
    /\ F.text[After(j) + 1] = SPACE
    /\ \/ After(j) + 1 < Len(F.text) /\ F.text[After(j) + 2] = APOSTROPHE
       \/ /\ j + 2 <= Len(Log)
          /\ Log[j + 1].rule = "swallow_space"
          /\ Log[j + 2].rule = "combining_vowel"

\* The token of entry j is the last of the input, or the next token matched
\* is a consonant.
BeforeEndOrConsonant(j) ==
    \/ After(j) >= Len(F.text)
    \/ j < Len(Log) /\ Log[j + 1].rule = "consonant"

\* C7 as stated: a matched consonant followed by whitespace, by the end of
\* the input or by another consonant has a virama right after its
\* codepoints in the output.
C7_ViramaAfterBareConsonant ==
    F.pc = "done" =>
        \A j \in 1..Len(Log) :
            (/\ Log[j].rule = "consonant"
             /\ BeforeEndOrConsonant(j) \/ BeforeWhitespace(j))
            => ClosedByVirama(j)

\* C7, amended: the same, except after a space that joins the consonant to
\* a following apostrophe or combining vowel.
C7_ViramaUnlessSpaceJoins ==
    F.pc = "done" =>
        \A j \in 1..Len(Log) :
            (/\ Log[j].rule = "consonant"
             /\ \/ BeforeEndOrConsonant(j)
                \/ BeforeWhitespace(j) /\ ~SpaceJoins(j))
            => ClosedByVirama(j)

\* A call has returned on consonant, space, consonant: the space was
\* swallowed and the first consonant closed.
C7_Witness ==
    /\ F.pc = "done"
    /\ \E j \in 1..Len(Log) :
        /\ Log[j].rule = "consonant"
        /\ BeforeWhitespace(j)
        /\ j + 2 <= Len(Log)
        /\ Log[j + 1].rule = "swallow_space"
        /\ Log[j + 2].rule = "consonant"
        /\ ClosedByVirama(j)

\* The characters that occur in a key of a table, for class attributes k.
TableChars(k) ==
    LET keys == DOMAIN k.CONSONANTS \cup DOMAIN k.INITIAL_VOWELS
                \cup DOMAIN k.COMBINING_VOWELS \cup DOMAIN k.DIACRITICS
                \cup DOMAIN NUMERALS \cup DOMAIN ACCENTED_INITIAL_VOWELS
                \cup DOMAIN ACCENTED_COMBINING_VOWELS
    IN UNION {{key[n] : n \in 1..Len(key)} : key \in keys}

\* The character c at position p of the text was passed through: one
\* iteration consumed it alone, appended it as it is, after a virama if a
\* consonant was pending, and left the state Other; passed-through
\* characters before it are earlier in the buffer.
PassedThrough(p, c) ==
    \E j \in 1..Len(Log) :
        /\ Log[j].at = p - 1
        /\ Log[j].n = 1
        /\ Log[j].rule = "passthrough"
        /\ Log[j].to = Other
        /\ Dev[Log[j].out] = <<c>>
        /\ Log[j].from = PendingConsonant =>
              /\ Log[j].out >= 2
              /\ Dev[Log[j].out - 1] = <<VIRAMA>>
        /\ \A h \in 1..(j - 1) :
              Log[h].rule = "passthrough" => Log[h].out < Log[j].out

\* The space at position p was consumed by the space-swallowing rule or by a
\* space and apostrophe pair rule.
SpaceRule(p) ==
    /\ F.text[p] = SPACE
    /\ \E j \in 1..Len(Log) :
        /\ Covers(j, p)
        /\ Log[j].rule \in
              {"swallow_space", "space_apostrophe", "apostrophe_space"}

\* C8 as stated: every character of the input that is in no table is passed
\* through unchanged.
C8_UnknownCharactersKept ==
    F.pc = "done" =>
        \A p \in 1..Len(F.arg) :
            F.arg[p] \notin TableChars(klass) => PassedThrough(p, F.arg[p])

\* C8, amended: every character of the lower-cased input that is in no
\* table is passed through unchanged, except a space that a space rule
\* consumed.
C8_UnknownLoweredCharactersKept ==
    F.pc = "done" =>
        LET known == TableChars(klass)
        IN \A p \in 1..Len(F.text) :
            (F.text[p] \notin known /\ ~SpaceRule(p))
            => PassedThrough(p, F.text[p])

\* A call has returned on an input with a full stop right after a bare
\* consonant.
C8_Witness ==
    /\ F.pc = "done"
    /\ \E j \in 1..Len(Log) :
        /\ Log[j].rule = "passthrough"
        /\ Log[j].from = PendingConsonant
        /\ F.text[Log[j].at + 1] = 46
        /\ Dev[Log[j].out - 1] = <<VIRAMA>>


\* ------------------------------------------------ accents and anusvara
\* The number of fragments in the buffer before log entry j appended its own.
PrevOut(j) == IF j = 1 THEN 0 ELSE Log[j - 1].out

\* The characters at the cursor of log entry j, at most n of them.
Ahead(j, n) == Slice(F.text, Log[j].at, Log[j].at + n)

\* C11: an accented vowel key alone gives the independent vowel of its
\* unaccented letter, and after a consonant the dependent vowel sign of its
\* unaccented letter.
C11_AccentedVowels ==
    F.pc = "done" =>
        /\ F.text \in DOMAIN ACCENTED_INITIAL_VOWELS
              => F.result = ACCENTED_INITIAL_VOWELS[F.text]
        /\ \A v \in DOMAIN ACCENTED_COMBINING_VOWELS :
              F.text = <<107>> \o v
              => F.result = klass.CONSONANTS[<<107>>]
                                \o ACCENTED_COMBINING_VOWELS[v]

\* The anusvara letter of the scheme of the instance being called:
\* m-dot-below under IAST, m-dot-above under ISO 15919.
AnusvaraLetter == IF objs[F.self].iast THEN 7747 ELSE 7745

\* C12: whenever the cursor is at an apostrophe followed by the anusvara
\* letter of the active scheme, whatever the state, both characters are
\* consumed, the one fragment anusvara + avagraha is appended with no virama,
\* and the state becomes Start.
C12_ApostropheAnusvara ==
    F.pc = "done" =>
        \A j \in 1..Len(Log) :
            Ahead(j, 2) = <<APOSTROPHE, AnusvaraLetter>> =>
                /\ Log[j].n = 2
                /\ Log[j].to = Start
                /\ Log[j].out = PrevOut(j) + 1
                /\ Dev[Log[j].out] = <<ANUSVARA, AVAGRAHA>>

\* ------------------------------------------------------- token priority
\* The state st admits the category of the key token of the tables k.
Admits(k, st, token) ==
    \/ token \in DOMAIN k.CONSONANTS
    \/ st # PendingConsonant /\ token \in DOMAIN k.INITIAL_VOWELS
    \/ st = PendingConsonant /\ token \in DOMAIN k.COMBINING_VOWELS

\* What the tables k give for a key that the state st admits.
KeyValue(k, st, token) ==
    IF token \in DOMAIN k.CONSONANTS THEN k.CONSONANTS[token]
    ELSE IF st # PendingConsonant THEN k.INITIAL_VOWELS[token]
    ELSE k.COMBINING_VOWELS[token]

\* The longest key at the cursor of log entry j that its state admits has n
\* characters.
LongestKey(j, n) ==
    /\ Len(Ahead(j, n)) = n
    /\ Admits(klass, Log[j].from, Ahead(j, n))
    /\ \A m \in (n + 1)..4 :
          Len(Ahead(j, m)) = m => ~Admits(klass, Log[j].from, Ahead(j, m))

\* C13: whenever the input at the cursor begins with a key of two, three or
\* four characters that the state admits, the whole of the longest such key
\* is consumed and its codepoints are appended.
C13_LongestKeyFirst ==
    F.pc = "done" =>
        \A j \in 1..Len(Log), n \in 2..4 :
            LongestKey(j, n) =>
                /\ Log[j].n = n
                /\ Dev[Log[j].out]
                      = KeyValue(klass, Log[j].from, Ahead(j, n))

\* The rules that handle the character at the cursor alone.
OneCharRules ==
    {"swallow_space", "drop_apostrophe", "consonant", "initial_vowel",
     "combining_vowel", "passthrough"}

\* The two-character token matches in state st: it is one of the three
\* special pairs or a key that the state admits.
TwoCharMatches(k, st, token) ==
    \/ token \in {<<SPACE, APOSTROPHE>>, <<APOSTROPHE, SPACE>>}
          /\ st = PendingConsonant
    \/ token = <<APOSTROPHE, 7745>>
    \/ Admits(k, st, token)

\* C14: at every cursor position with two characters left the two-character
\* token is tried first.  If it matches, both characters are consumed by its
\* rule; if it does not match, which includes a two-character key that the
\* state does not admit, the first character is handled alone by a
\* one-character rule, and as a key only if the state admits it.
C14_TwoCharactersFirst ==
    F.pc = "done" =>
        \A j \in 1..Len(Log) :
            Len(Ahead(j, 2)) = 2 =>
                IF TwoCharMatches(klass, Log[j].from, Ahead(j, 2))
                THEN /\ Log[j].n = 2
                     /\ Log[j].rule \notin
                           {"swallow_space", "drop_apostrophe", "passthrough"}
                ELSE /\ Log[j].n = 1
                     /\ Log[j].rule \in OneCharRules
                     /\ Log[j].rule \in
                           {"consonant", "initial_vowel", "combining_vowel"}
                        => /\ Admits(klass, Log[j].from, Ahead(j, 1))
                           /\ Dev[Log[j].out]
                                 = KeyValue(klass, Log[j].from, Ahead(j, 1))

\* A call has returned that met a two-character key of the independent
\* vowels only (m with candrabindu) while a consonant was pending, and
\* handled the m alone as a consonant.
C14_Witness ==
    /\ F.pc = "done"
    /\ \E j \in 1..Len(Log) :
        /\ Log[j].from = PendingConsonant
        /\ Ahead(j, 2) \in DOMAIN klass.INITIAL_VOWELS
        /\ Ahead(j, 2) \notin DOMAIN klass.COMBINING_VOWELS
        /\ Log[j].n = 1
        /\ Log[j].rule = "consonant"

\* ------------------------------------------------------- table dispatch
\* The token that log entry j consumed.
Token(j) == Ahead(j, Log[j].n)

\* C15: a token that is a Consonants key is always matched as a consonant:
\* a virama is appended first exactly when a consonant was pending, then the
\* consonant's codepoints, and the state becomes PendingConsonant.  A token
\* matched as an independent vowel is no Consonants key, was met with no
\* consonant pending, appends its codepoints only and leaves the state as it
\* was.  A token matched as a dependent vowel is no Consonants key, was met
\* with a consonant pending, appends its codepoints only and sets Start.
C15_TableDispatch ==
    F.pc = "done" =>
        \A j \in 1..Len(Log) :
            /\ Ahead(j, 2) \in DOMAIN klass.CONSONANTS
                  => Log[j].rule = "consonant" /\ Log[j].n = 2
            /\ Log[j].rule = "consonant" =>
                  /\ Token(j) \in DOMAIN klass.CONSONANTS
                  /\ Log[j].to = PendingConsonant
                  /\ IF Log[j].from = PendingConsonant
                     THEN /\ Log[j].out = PrevOut(j) + 2
                          /\ Dev[Log[j].out - 1] = <<VIRAMA>>
                     ELSE Log[j].out = PrevOut(j) + 1
                  /\ Dev[Log[j].out] = klass.CONSONANTS[Token(j)]
            /\ Log[j].rule = "initial_vowel" =>
                  /\ Token(j) \notin DOMAIN klass.CONSONANTS
                  /\ Log[j].from # PendingConsonant
                  /\ Log[j].to = Log[j].from
                  /\ Log[j].out = PrevOut(j) + 1
                  /\ Dev[Log[j].out] = klass.INITIAL_VOWELS[Token(j)]
            /\ Log[j].rule = "combining_vowel" =>
                  /\ Token(j) \notin DOMAIN klass.CONSONANTS
                  /\ Log[j].from = PendingConsonant
                  /\ Log[j].to = Start
                  /\ Log[j].out = PrevOut(j) + 1
                  /\ Dev[Log[j].out] = klass.COMBINING_VOWELS[Token(j)]

\* A call has returned that matched a consonant after a pending consonant,
\* with the virama first, and then a dependent vowel.
C15_Witness ==
    /\ F.pc = "done"
    /\ \E j \in 1..Len(Log) :
          Log[j].rule = "consonant" /\ Log[j].from = PendingConsonant
    /\ \E j \in 1..Len(Log) : Log[j].rule = "combining_vowel"

\* ------------------------------------------------- spaces and apostrophes
\* The character after the one at the cursor of log entry j, or the empty
\* string at the end of the input.
NextChar(j) == Slice(F.text, Log[j].at + 1, Log[j].at + 2)

\* The condition under which C16 has the space at the cursor of log entry j
\* swallowed.
SwallowCase(j) ==
    \/ /\ Log[j].from = PendingConsonant
       /\ \/ NextChar(j) = <<>>
          \/ NextChar(j) \in DOMAIN klass.CONSONANTS
          \/ NextChar(j) \in DOMAIN klass.COMBINING_VOWELS
    \/ Log[j].from # PendingConsonant /\ NextChar(j) = <<APOSTROPHE>>

\* Log entry j consumed its one character with nothing appended and the
\* state unchanged.
Swallowed(j) ==
    /\ Log[j].n = 1
    /\ Log[j].out = PrevOut(j)
    /\ Log[j].to = Log[j].from

\* Log entry j appended its one character, a space, after a virama if a
\* consonant was pending.
SpacePreserved(j) ==
    /\ Log[j].n = 1
    /\ IF Log[j].from = PendingConsonant
       THEN Log[j].out = PrevOut(j) + 2 /\ Dev[Log[j].out - 1] = <<VIRAMA>>
       ELSE Log[j].out = PrevOut(j) + 1
    /\ Dev[Log[j].out] = <<SPACE>>

\* C16 as stated: a space at the cursor is swallowed exactly in the swallow
\* case, and in every other case it is preserved.
C16_SpaceSwallowedOrPreserved ==
    F.pc = "done" =>
        \A j \in 1..Len(Log) :
            Ahead(j, 1) = <<SPACE>> =>
                IF SwallowCase(j) THEN Swallowed(j) ELSE SpacePreserved(j)

\* C16, amended: a space at the cursor is swallowed exactly in the swallow
\* case; a space followed by an apostrophe while a consonant is pending is
\* consumed together with the apostrophe, with nothing appended and the
\* state set to Start; in every other case the space is preserved.
C16_SpaceSwallowedPairedOrPreserved ==
    F.pc = "done" =>
        \A j \in 1..Len(Log) :
            Ahead(j, 1) = <<SPACE>> =>
                IF SwallowCase(j) THEN Swallowed(j)
                ELSE IF Log[j].from = PendingConsonant
                        /\ NextChar(j) = <<APOSTROPHE>>
                THEN /\ Log[j].n = 2
                     /\ Log[j].out = PrevOut(j)
                     /\ Log[j].to = Start
                ELSE SpacePreserved(j)

\* A call has returned that swallowed a space between a pending consonant
\* and a one-character consonant key.
C16_Witness ==
    /\ F.pc = "done"
    /\ \E j \in 1..Len(Log) :
        /\ Ahead(j, 1) = <<SPACE>>
        /\ Log[j].from = PendingConsonant
        /\ NextChar(j) \in DOMAIN klass.CONSONANTS
        /\ Log[j].rule = "swallow_space"

\* The apostrophe at the cursor of log entry j is followed by a character
\* that starts no token and is not the anusvara letter of the active scheme.
DropCase(j) ==
    /\ Ahead(j, 1) = <<APOSTROPHE>>
    /\ NextChar(j) # <<>>
    /\ NextChar(j) \notin DOMAIN klass.CONSONANTS
    /\ NextChar(j) \notin DOMAIN klass.COMBINING_VOWELS
    /\ NextChar(j) # <<AnusvaraLetter>>

\* C17: an apostrophe at the cursor whose next character starts no token and
\* is not the anusvara letter of the active scheme is dropped: no avagraha
\* and no raw apostrophe is appended for it, no virama is appended for a
\* pending consonant, and the state becomes Start.  Nothing at all is
\* appended, unless the next character is a space after a pending consonant,
\* which is consumed with it and appended.
C17_ApostropheDropped ==
    F.pc = "done" =>
        \A j \in 1..Len(Log) :
            DropCase(j) =>
                /\ Log[j].to = Start
                /\ IF Log[j].from = PendingConsonant
                        /\ NextChar(j) = <<SPACE>>
                   THEN /\ Log[j].n = 2
                        /\ Log[j].out = PrevOut(j) + 1
                        /\ Dev[Log[j].out] = <<SPACE>>
                   ELSE /\ Log[j].n = 1
                        /\ Log[j].out = PrevOut(j)

\* C18: with a consonant pending, space + apostrophe consumes both
\* characters and appends nothing, and apostrophe + space consumes both and
\* appends exactly one space; both set Start and append no virama.  In any
\* other state neither pair is consumed: one character is consumed by a
\* one-character rule that looks up no pair.
C18_PairRules ==
    F.pc = "done" =>
        \A j \in 1..Len(Log) :
            /\ (Ahead(j, 2) = <<SPACE, APOSTROPHE>>
                    /\ Log[j].from = PendingConsonant) =>
                  /\ Log[j].n = 2
                  /\ Log[j].to = Start
                  /\ Log[j].out = PrevOut(j)
            /\ (Ahead(j, 2) = <<APOSTROPHE, SPACE>>
                    /\ Log[j].from = PendingConsonant) =>
                  /\ Log[j].n = 2
                  /\ Log[j].to = Start
                  /\ Log[j].out = PrevOut(j) + 1
                  /\ Dev[Log[j].out] = <<SPACE>>
            /\ (Ahead(j, 2) \in {<<SPACE, APOSTROPHE>>, <<APOSTROPHE, SPACE>>}
                    /\ Log[j].from # PendingConsonant) =>
                  /\ Log[j].n = 1
                  /\ Log[j].rule \in {"swallow_space", "drop_apostrophe"}
            /\ Log[j].rule \in {"space_apostrophe", "apostrophe_space"}
                  => Log[j].from = PendingConsonant

\* A call has returned that consumed apostrophe + space after a pending
\* consonant and appended the space right after the consonant.
C18_Witness ==
    /\ F.pc = "done"
    /\ \E j \in 1..Len(Log) :
        /\ Ahead(j, 2) = <<APOSTROPHE, SPACE>>
        /\ Log[j].from = PendingConsonant
        /\ Log[j].out = 2
        /\ Dev[1] \in {klass.CONSONANTS[c] : c \in DOMAIN klass.CONSONANTS}
        /\ Dev[2] = <<SPACE>>

\* ------------------------------------------------------------ the virama
\* The state in which the scan of the call ended.
FinalState == IF Log = <<>> THEN Start ELSE Log[Len(Log)].to

\* The number of fragments the scan of the call appended.
ScanOut == IF Log = <<>> THEN 0 ELSE Log[Len(Log)].out

ConsonantValues == {klass.CONSONANTS[c] : c \in DOMAIN klass.CONSONANTS}

\* C20: for an input without a virama, whenever the state is
\* PendingConsonant between two iterations the last fragment of the buffer
\* is a consonant's codepoint sequence; every virama fragment of the buffer
\* follows a consonant's fragment; and in the returned string every virama
\* follows the last codepoint of a consonant, so no two viramas are adjacent.
C20_ViramaFollowsConsonant ==
    (F.pc \in {"loop", "done"} /\ \A p \in 1..Len(F.text) : F.text[p] # VIRAMA)
    => LET cv == ConsonantValues
       IN /\ (F.pc = "loop" /\ objs[F.self].state = PendingConsonant)
                => Dev # <<>> /\ Dev[Len(Dev)] \in cv
          /\ \A n \in 1..Len(Dev) :
                Dev[n] = <<VIRAMA>> => n > 1 /\ Dev[n - 1] \in cv
          /\ F.pc = "done" =>
                \A n \in 1..Len(F.result) :
                    F.result[n] = VIRAMA =>
                        /\ n > 1
                        /\ F.result[n - 1] \in {v[Len(v)] : v \in cv}
                        /\ F.result[n - 1] # VIRAMA

\* A call has returned a string with a virama inside it and a virama at its
\* end.
C20_Witness ==
    /\ F.pc = "done"
    /\ \E n \in 2..(Len(F.result) - 1) :
          F.result[n] = VIRAMA /\ F.result[Len(F.result)] = VIRAMA

\* ------------------------------------------------------------ the cursor
\* Log entry j starts where the entry before it stopped, advances the
\* cursor by one or two, and leaves it where the next entry, or the frame,
\* has it.
Contiguous(j) ==
    /\ Log[j].n \in {1, 2}
    /\ Log[j].at = IF j = 1 THEN 0 ELSE After(j - 1)
    /\ j = Len(Log) => F.i = After(j)

\* Log entry j matched the last character of the input in the two-character
\* attempt: the token text[i:i+2] had one character and the cursor advanced
\* by two.
Overshoots(j) ==
    /\ Log[j].at = F.stop - 1
    /\ Log[j].n = 2
    /\ Log[j].rule \in {"consonant", "initial_vowel", "combining_vowel"}

\* The part of C21 that both readings share, in every state of a call: the
\* log is contiguous from cursor 0, has at most len(text) entries, and once
\* the call has returned every character of the text was consumed by an
\* entry.
CursorAdvances ==
    F.pc \in {"loop", "done"} =>
        /\ F.stop = Len(F.text)
        /\ Log = <<>> => F.i = 0
        /\ \A j \in 1..Len(Log) : Contiguous(j)
        /\ Len(Log) <= Len(F.text)
        /\ F.pc = "done" =>
              \A p \in 1..Len(F.text) : \E j \in 1..Len(Log) : Covers(j, p)

\* C21 as stated: the cursor advances in every iteration by exactly the
\* number of characters the iteration consumed, and the loop ends with the
\* cursor at the end of the input.
C21_CursorExact ==
    /\ CursorAdvances
    /\ F.pc \in {"loop", "done"} =>
          \A j \in 1..Len(Log) : Log[j].n = Len(Token(j))
    /\ F.pc = "done" => F.i = F.stop

\* C21, amended: every call terminates.  The cursor advances in every
\* iteration by one or two, which is the number of characters consumed
\* except when the last character matched in the two-character attempt: then
\* one character is consumed and the cursor advances by two, and the loop
\* ends with the cursor one past the end of the input instead of at it.
C21_Terminates ==
    /\ [](/\ CursorAdvances
          /\ F.pc \in {"loop", "done"} =>
                \A j \in 1..Len(Log) :
                    Log[j].n = Len(Token(j)) \/ Overshoots(j)
          /\ F.pc = "done" =>
                IF Log # <<>> /\ Overshoots(Len(Log))
                THEN F.i = F.stop + 1
                ELSE F.i = F.stop)
    /\ (F.pc = "enter") ~> (F.pc = "done")

\* A call on three characters has returned after two iterations, the first
\* of which consumed two characters, with the cursor at the end of the
\* input.
C21_Witness ==
    /\ F.pc = "done"
    /\ Len(F.text) = 3
    /\ Len(Log) = 2
    /\ Log[1].n = 2
    /\ F.i = F.stop
=============================================================================
